---- MODULE Spec2Model ----
(***************************************************************************)
(* A model of gearnode/postman (src/main.go): the Mail value, its String   *)
(* method (the serializer), genMsgID (the Message-ID generator) and main   *)
(* (the SMTP session).                                                     *)
(*                                                                         *)
(* A Go string is modelled as a sequence of tokens.  A token is a single   *)
(* character (":", " ", ";", "<", "@", a decimal digit, CR, LF ...) or an  *)
(* indivisible word (a header name, a mailbox, a host label).  The empty   *)
(* Go string "" is the empty sequence.                                     *)
(*                                                                         *)
(* Three specifications share the variables:                               *)
(*   Spec      a caller builds one Mail and calls String on it repeatedly  *)
(*   SpecGen   several goroutines of one process run genMsgID concurrently *)
(*   SpecMain  the program main                                            *)
(***************************************************************************)
EXTENDS Integers, Sequences, FiniteSets, TLC

VARIABLES
    m,        \* the Mail value the caller holds (a *Mail receiver)
    hist,     \* the calls of m.String() made so far, oldest first: the Mail before the
              \* call, what rand.Int and os.Hostname returned, genMsgID's result, and
              \* the string and error returned
    pid,      \* os.Getpid() of the process
    gpc,      \* SpecGen: each goroutine's position in genMsgID
    gloc,     \* SpecGen: each goroutine's locals t, pid, rint, err, host, and its result
    mpc,      \* SpecMain: position in main
    conn,     \* SpecMain: the *smtp.Client: "none", "open" or "closed"
    wc,       \* SpecMain: the DATA io.WriteCloser: "none", "open" or "closed"
    defers,   \* SpecMain: main's stack of deferred calls, top first
    buf,      \* SpecMain: the unread bytes of the bytes.Buffer
    events,   \* SpecMain: the calls made on the connection, in order, with their outcome
    exitCode  \* SpecMain: the process's exit status, -1 while running

vars == <<m, hist, pid, gpc, gloc, mpc, conn, wc, defers, buf, events, exitCode>>

mailVars == <<m, hist>>
genVars == <<gpc, gloc>>
mainVars == <<mpc, conn, wc, defers, buf, events, exitCode>>

----------------------------------------------------------------------------
(* Bounds *)

\* the number of String() calls a caller makes on one Mail
MaxCalls == 2

\* the number of goroutines running genMsgID at once
NThreads == 2

----------------------------------------------------------------------------
(* Strings *)

CR == "\r"
LF == "\n"
CRLF == <<CR, LF>>

\* Go's nil error
nil == "nil"

\* the error rand.Int returns when reading rand.Reader fails
ErrRand == "rand.Reader: read failed"

\* the error os.Hostname returns
ErrHost == "os.Hostname: failed"

Digit == <<"0", "1", "2", "3", "4", "5", "6", "7", "8", "9">>

\* fmt's %d of a non-negative integer: its decimal digits, most significant first
RECURSIVE Dec(_)
Dec(n) ==
    IF n < 10 THEN <<Digit[n + 1]>>
    ELSE Dec(n \div 10) \o <<Digit[(n % 10) + 1]>>

\* strings.Join(elems, sep)
RECURSIVE Join(_, _)
Join(elems, sep) ==
    IF Len(elems) = 0 THEN <<>>
    ELSE IF Len(elems) = 1 THEN elems[1]
    ELSE elems[1] \o sep \o Join(Tail(elems), sep)

----------------------------------------------------------------------------
(* The Mail value: the fields String reads, and the fields it must leave alone *)

\* values of a single-mailbox or free-text field: absent, clean, or carrying a bare CR or LF
SenderValues == { <<>>, <<"s">> }
FromValues == { <<>>, <<"f", LF, "x">> }
ReplyToValues == { <<>>, <<"r">> }
SubjectValues == { <<>>, <<"hello">>, <<"hello", CR, "x">> }

\* values of a recipient list: empty, clean, or with an entry carrying a bare CR or LF
ToValues == { <<>>, << <<"t1">> >>, << <<"t1">>, <<"t2", LF>> >> }
CcValues == { <<>>, << <<"c1">>, <<"c2">> >> }
BccValues == { <<>>, << <<"b1">>, <<"b2">> >> }

\* a Message-ID the caller set before serializing, or none
PresetID == <<"<", "7", ".", "7", ".", "7", "@", "preset", ">">>
MessageIDValues == { <<>>, PresetID }

\* the body parts and attachments a Mail owns
SomeParts == << [ContentType |-> <<"text/plain">>, Content |-> <<"body">>] >>
SomeAttachments == << [Filename |-> <<"a.txt">>, Content |-> <<"data">>] >>

Mails ==
    [ Sender : SenderValues, From : FromValues, ReplyTo : ReplyToValues,
      To : ToValues, Cc : CcValues, Bcc : BccValues,
      MessageID : MessageIDValues, Subject : SubjectValues,
      Parts : {SomeParts}, Attachments : {SomeAttachments} ]

----------------------------------------------------------------------------
(* What genMsgID reads from its environment *)

\* readings of time.Now().UnixNano(); the wall clock may repeat a value or step back
Times == {1, 12}

\* os.Getpid()
Pids == {2}

\* outcomes of rand.Int(rand.Reader, MaxInt64)
RandOutcomes ==
    { [val |-> 0, err |-> ErrRand] } \cup { [val |-> v, err |-> nil] : v \in {1, 21} }

\* outcomes of os.Hostname()
HostOutcomes ==
    { [name |-> <<>>, err |-> ErrHost], [name |-> <<"mx1">>, err |-> nil] }

\* os.Hostname is not called when rand.Int has failed
HostNotCalled == [name |-> <<>>, err |-> "not called"]

\* one invocation's readings
Envs ==
    { e \in [t : Times, rnd : RandOutcomes, host : HostOutcomes \cup {HostNotCalled}] :
        (e.host = HostNotCalled) <=> (e.rnd.err # nil) }

----------------------------------------------------------------------------
(* genMsgID *)

\* the domain substituted when os.Hostname fails
Placeholder == <<"localhost", ".", "localdomain">>

\* a format without the "." separators: "<%d%d%d@%s>"
SprintfMsgID_NoDots(t, p, rint, host) ==
    <<"<">> \o Dec(t) \o Dec(p) \o Dec(rint) \o <<"@">> \o host \o <<">">>

\* fmt.Sprintf("<%d.%d.%d@%s>", t, pid, rint, host)
SprintfMsgID(t, p, rint, host) ==
    <<"<">> \o Dec(t) \o <<".">> \o Dec(p) \o <<".">> \o Dec(rint)
        \o <<"@">> \o host \o <<">">>

\* a genMsgID that returns os.Hostname's error instead of substituting the placeholder
genMsgID_HostnameFatal(t, p, rnd, hostres) ==
    IF rnd.err # nil THEN [id |-> <<>>, err |-> rnd.err]
    ELSE IF hostres.err # nil THEN [id |-> <<>>, err |-> hostres.err]
    ELSE [id |-> <<"<">> \o Dec(t) \o <<".">> \o Dec(p) \o <<".">> \o Dec(rnd.val)
                    \o <<"@">> \o hostres.name \o <<">">>, err |-> nil]

\* genMsgID() (string, error), given what it read: t, pid, rand.Int's and os.Hostname's results
genMsgID(t, p, rnd, hostres) ==
    IF rnd.err # nil THEN [id |-> <<>>, err |-> rnd.err]
    ELSE LET host == IF hostres.err # nil THEN Placeholder ELSE hostres.name
         IN [id |-> SprintfMsgID(t, p, rnd.val, host), err |-> nil]

----------------------------------------------------------------------------
(* Mail.String *)

\* fmt.Sprintf("<name>: %s\r\n", v)
Line(name, v) == <<name, ":", " ">> \o v \o CRLF

\* a header built with Reply-To ahead of the recipient lists
HeaderBeforeID_ReplyToFirst(mm) ==
    LET h1 == Line("Sender", mm.Sender)
        h2 == h1 \o Line("From", mm.From)
        h3 == IF mm.ReplyTo # <<>> THEN h2 \o Line("Reply-To", mm.ReplyTo) ELSE h2
        h4 == IF Len(mm.To) > 0 THEN h3 \o Line("To", Join(mm.To, <<";">>)) ELSE h3
        h5 == IF Len(mm.Cc) > 0 THEN h4 \o Line("Cc", Join(mm.Cc, <<";">>)) ELSE h4
    IN  IF Len(mm.Bcc) > 0 THEN h5 \o Line("Bcc", Join(mm.Bcc, <<";">>)) ELSE h5

\* the header String has built when it calls genMsgID
HeaderBeforeID(mm) ==
    LET h1 == Line("Sender", mm.Sender)
        h2 == h1 \o Line("From", mm.From)
        h3 == IF Len(mm.To) > 0 THEN h2 \o Line("To", Join(mm.To, <<";">>)) ELSE h2
        h4 == IF Len(mm.Cc) > 0 THEN h3 \o Line("Cc", Join(mm.Cc, <<";">>)) ELSE h3
        h5 == IF Len(mm.Bcc) > 0 THEN h4 \o Line("Bcc", Join(mm.Bcc, <<";">>)) ELSE h4
    IN  IF mm.ReplyTo # <<>> THEN h5 \o Line("Reply-To", mm.ReplyTo) ELSE h5

\* a String that returns the header built so far together with genMsgID's error
String_PartialOnError(mm, e) ==
    LET g == genMsgID(e.t, e.pid, e.rnd, e.host)
    IN  IF g.err # nil THEN [out |-> HeaderBeforeID(mm), err |-> g.err, m |-> mm]
        ELSE [out |-> HeaderBeforeID(mm) \o Line("Message-ID", g.id)
                          \o Line("Subject", mm.Subject),
              err |-> nil, m |-> mm]

\* (m *Mail) String() (string, error): the string and error returned, and the Mail
\* as the call leaves it (String assigns no field of m)
String(mm, e) ==
    LET g == genMsgID(e.t, e.pid, e.rnd, e.host)
    IN  IF g.err # nil THEN [out |-> <<>>, err |-> g.err, m |-> mm]
        ELSE [out |-> HeaderBeforeID(mm) \o Line("Message-ID", g.id)
                          \o Line("Subject", mm.Subject),
              err |-> nil, m |-> mm]

----------------------------------------------------------------------------
(* Spec: one Mail, serialized repeatedly *)

GenIdle == [i \in {} |-> 0]

MainIdle ==
    /\ mpc = "idle"
    /\ conn = "none"
    /\ wc = "none"
    /\ defers = <<>>
    /\ buf = <<>>
    /\ events = <<>>
    /\ exitCode = -1

Init ==
    /\ m \in Mails
    /\ hist = <<>>
    /\ pid \in Pids
    /\ gpc = GenIdle
    /\ gloc = GenIdle
    /\ MainIdle

\* a caller invokes m.String()
Serialize ==
    /\ Len(hist) < MaxCalls
    /\ \E e \in Envs :
         LET env == [t |-> e.t, pid |-> pid, rnd |-> e.rnd, host |-> e.host]
             r == String(m, env)
         IN /\ m' = r.m
            /\ hist' = Append(hist, [pre |-> m, rnd |-> e.rnd, host |-> e.host,
                                     gen |-> genMsgID(env.t, env.pid, env.rnd, env.host),
                                     out |-> r.out, err |-> r.err])
    /\ UNCHANGED <<pid, genVars, mainVars>>

Next == Serialize

Spec == Init /\ [][Next]_vars

----------------------------------------------------------------------------
(* Reading a serialized header block back *)

\* the lines of s, each ended by CR LF (and the rest after the last CR LF, if any)
RECURSIVE LinesFrom(_, _, _)
LinesFrom(s, i, start) ==
    IF i > Len(s)
    THEN (IF start > Len(s) THEN <<>> ELSE <<SubSeq(s, start, Len(s))>>)
    ELSE IF i < Len(s) /\ s[i] = CR /\ s[i + 1] = LF
         THEN <<SubSeq(s, start, i - 1)>> \o LinesFrom(s, i + 2, i + 2)
         ELSE LinesFrom(s, i + 1, start)

HeaderLines(s) == LinesFrom(s, 1, 1)

\* the field name of a header line "name: body", "" when the line has no such shape
FieldName(l) == IF Len(l) >= 2 /\ l[2] = ":" THEN l[1] ELSE ""

\* what follows the name, the colon and the blanks after it
RECURSIVE DropBlanks(_)
DropBlanks(s) == IF s # <<>> /\ Head(s) = " " THEN DropBlanks(Tail(s)) ELSE s

FieldBody(l) == DropBlanks(SubSeq(l, 3, Len(l)))

\* the indices of the header lines of s named name
LinesNamed(s, name) ==
    LET ls == HeaderLines(s)
    IN { k \in 1..Len(ls) : FieldName(ls[k]) = name }

\* the value of the (first) Message-ID header of s, <<>> when there is none
EmittedID(s) ==
    LET idx == LinesNamed(s, "Message-ID")
    IN IF idx = {} THEN <<>>
       ELSE FieldBody(HeaderLines(s)[CHOOSE k \in idx : \A j \in idx : k <= j])

\* sub occurs in s as a contiguous run
Occurs(sub, s) ==
    \E k \in 1..(Len(s) - Len(sub) + 1) : SubSeq(s, k, k + Len(sub) - 1) = sub

HasCRorLF(v) == \E k \in 1..Len(v) : v[k] \in {CR, LF}

\* every value String puts in a header
EmittedValues(mm) ==
    {mm.Sender, mm.From, mm.ReplyTo, mm.Subject}
        \cup { mm.To[k] : k \in 1..Len(mm.To) }
        \cup { mm.Cc[k] : k \in 1..Len(mm.Cc) }
        \cup { mm.Bcc[k] : k \in 1..Len(mm.Bcc) }

Calls == 1..Len(hist)

Succeeded(i) == hist[i].err = nil

\* the Mail as call i left it
Post(i) == IF i < Len(hist) THEN hist[i + 1].pre ELSE m

----------------------------------------------------------------------------
(* Claims about Mail.String, under Spec *)

\* C1: the identifier of a Message is fixed once set: two successive calls of
\* String on the same Mail emit the same Message-ID, and a Mail whose MessageID is
\* non-empty is serialized with exactly that value.
C1_IdentifierFixed ==
    \A i \in Calls :
        Succeeded(i) =>
            /\ hist[i].pre.MessageID # <<>> => EmittedID(hist[i].out) = hist[i].pre.MessageID
            /\ (i > 1 /\ Succeeded(i - 1)) => EmittedID(hist[i].out) = EmittedID(hist[i - 1].out)

\* C2: a Mail with a bare CR or LF in an emitted header value is rejected with a
\* HeaderInjection error and no output (stated for the calls in which nothing else,
\* that is the random source, fails).
C2_InjectionRejected ==
    \A i \in Calls :
        ((\E v \in EmittedValues(hist[i].pre) : HasCRorLF(v)) /\ hist[i].rnd.err = nil) =>
            /\ hist[i].err = "HeaderInjection"
            /\ hist[i].out = <<>>

\* what a complete header block of call i holds: it opens with the Sender header and
\* closes with the generated Message-ID and the Subject
CompleteBlock(i) ==
    LET c == hist[i]
        tail == Line("Message-ID", c.gen.id) \o Line("Subject", c.pre.Subject)
        head == Line("Sender", c.pre.Sender)
    IN /\ c.gen.id # <<>>
       /\ Len(c.out) >= Len(head) + Len(tail)
       /\ SubSeq(c.out, 1, Len(head)) = head
       /\ SubSeq(c.out, Len(c.out) - Len(tail) + 1, Len(c.out)) = tail

\* C3: when the random source fails, genMsgID returns an error and an empty
\* identifier and String returns that error and an empty string; every call returns
\* either a complete header block and a nil error, or an empty string and an error.
C3_NoPartialOutput ==
    \A i \in Calls :
        /\ hist[i].rnd.err # nil =>
              /\ hist[i].gen = [id |-> <<>>, err |-> hist[i].rnd.err]
              /\ hist[i].err = hist[i].rnd.err
              /\ hist[i].out = <<>>
        /\ \/ hist[i].err = nil /\ CompleteBlock(i)
           \/ hist[i].err # nil /\ hist[i].out = <<>>

\* C3's case: a call in which the random source failed, after one in which it did not
C3_Witness ==
    /\ Len(hist) = 2
    /\ hist[1].rnd.err = nil /\ hist[1].out # <<>>
    /\ hist[2].rnd.err = ErrRand /\ hist[2].err = ErrRand

\* C5: the output has no Bcc header and none of the Bcc mailboxes.
C5_NoBccInOutput ==
    \A i \in Calls :
        /\ LinesNamed(hist[i].out, "Bcc") = {}
        /\ \A k \in 1..Len(hist[i].pre.Bcc) : ~Occurs(hist[i].pre.Bcc[k], hist[i].out)

\* the order the specification gives
ClaimedOrder == <<"Date", "From", "Sender", "Reply-To", "To", "Cc", "Message-ID", "Subject">>

\* the order String emits
EmissionOrder == <<"Sender", "From", "To", "Cc", "Bcc", "Reply-To", "Message-ID", "Subject">>

Rank(order, name) == CHOOSE k \in 1..Len(order) : order[k] = name

Names(order) == { order[k] : k \in 1..Len(order) }

\* C6 as stated: the header lines present appear in the relative order Date, From,
\* Sender, Reply-To, To, Cc, Message-ID, Subject.
C6_ClaimedOrder ==
    \A i \in Calls :
        LET ls == HeaderLines(hist[i].out)
        IN \A a, b \in 1..Len(ls) :
            (a < b /\ FieldName(ls[a]) \in Names(ClaimedOrder)
                   /\ FieldName(ls[b]) \in Names(ClaimedOrder))
                => Rank(ClaimedOrder, FieldName(ls[a])) <= Rank(ClaimedOrder, FieldName(ls[b]))

\* whether a field of the Mail is present, and the text of its header
Present(mm, name) ==
    CASE name = "To" -> mm.To # <<>>
      [] name = "Cc" -> mm.Cc # <<>>
      [] name = "Bcc" -> mm.Bcc # <<>>
      [] name = "Reply-To" -> mm.ReplyTo # <<>>
      [] OTHER -> TRUE

FieldText(mm, id, name) ==
    CASE name = "Sender" -> mm.Sender
      [] name = "From" -> mm.From
      [] name = "To" -> Join(mm.To, <<";">>)
      [] name = "Cc" -> Join(mm.Cc, <<";">>)
      [] name = "Bcc" -> Join(mm.Bcc, <<";">>)
      [] name = "Reply-To" -> mm.ReplyTo
      [] name = "Message-ID" -> id
      [] name = "Subject" -> mm.Subject

\* the header lines of the fields order[k..] that are present, one after the other
RECURSIVE InOrder(_, _, _, _)
InOrder(order, k, mm, id) ==
    IF k > Len(order) THEN <<>>
    ELSE (IF Present(mm, order[k])
          THEN <<order[k], ":", " ">> \o FieldText(mm, id, order[k]) \o CRLF
          ELSE <<>>) \o InOrder(order, k + 1, mm, id)

\* C6 as amended: every successful output is the header lines of the emitted fields
\* in the fixed order Sender, From, To, Cc, Bcc, Reply-To, Message-ID, Subject, and
\* nothing else, whatever the field values are.
C6_EmissionOrder ==
    \A i \in Calls :
        Succeeded(i) => hist[i].out = InOrder(EmissionOrder, 1, hist[i].pre, hist[i].gen.id)

\* C6's case: a successful call on a Mail with every optional field present
C6_Witness ==
    \E i \in Calls :
        /\ Succeeded(i)
        /\ \A n \in Names(EmissionOrder) : Present(hist[i].pre, n)
        /\ Len(HeaderLines(hist[i].out)) >= 8

\* C7: an absent field produces no header line, and no header line has an empty value.
C7_AbsentOmitted ==
    \A i \in Calls :
        Succeeded(i) =>
            /\ \A k \in 1..Len(HeaderLines(hist[i].out)) :
                  FieldBody(HeaderLines(hist[i].out)[k]) # <<>>
            /\ hist[i].pre.Sender = <<>> => LinesNamed(hist[i].out, "Sender") = {}
            /\ hist[i].pre.From = <<>> => LinesNamed(hist[i].out, "From") = {}
            /\ hist[i].pre.ReplyTo = <<>> => LinesNamed(hist[i].out, "Reply-To") = {}
            /\ hist[i].pre.Subject = <<>> => LinesNamed(hist[i].out, "Subject") = {}
            /\ hist[i].pre.To = <<>> => LinesNamed(hist[i].out, "To") = {}
            /\ hist[i].pre.Cc = <<>> => LinesNamed(hist[i].out, "Cc") = {}

\* C8: a call on a Mail whose MessageID is empty stores the Message-ID it emits in
\* the Mail's MessageID field and leaves every other field unchanged, whether it
\* succeeds or fails.
C8_StoresIdentifier ==
    \A i \in Calls :
        hist[i].pre.MessageID = <<>> =>
            /\ Succeeded(i) => Post(i).MessageID = EmittedID(hist[i].out)
            /\ Post(i) = [hist[i].pre EXCEPT !.MessageID = Post(i).MessageID]

\* the text between "<" and "@" is three non-empty runs of digits separated by "."
RECURSIVE DottedDigits(_, _, _)
DottedDigits(s, runs, inRun) ==
    IF s = <<>> THEN runs = 3 /\ inRun
    ELSE IF Head(s) = "." THEN inRun /\ DottedDigits(Tail(s), runs, FALSE)
    ELSE /\ \E d \in 1..10 : Digit[d] = Head(s)
         /\ DottedDigits(Tail(s), IF inRun THEN runs ELSE runs + 1, TRUE)

\* <timestamp.pid.random@localhost.localdomain>
PlaceholderForm(id) ==
    LET ats == { k \in 1..Len(id) : id[k] = "@" }
    IN /\ Len(id) >= 2
       /\ id[1] = "<"
       /\ id[Len(id)] = ">"
       /\ Cardinality(ats) = 1
       /\ LET at == CHOOSE k \in ats : TRUE
          IN /\ SubSeq(id, at + 1, Len(id) - 1) = Placeholder
             /\ DottedDigits(SubSeq(id, 2, at - 1), 0, FALSE)

\* C9: when os.Hostname fails and the random source succeeds, genMsgID returns a nil
\* error and <timestamp.pid.random@localhost.localdomain>, with a single "@"; String
\* returns an error only when the random source failed.
C9_HostnameFallback ==
    \A i \in Calls :
        /\ (hist[i].host.err = ErrHost /\ hist[i].rnd.err = nil) =>
              /\ hist[i].gen.err = nil
              /\ PlaceholderForm(hist[i].gen.id)
              /\ hist[i].err = nil
        /\ hist[i].err # nil => hist[i].rnd.err # nil

\* C9's case: a call in which os.Hostname failed and rand.Int did not
C9_Witness ==
    \E i \in Calls :
        /\ hist[i].host.err = ErrHost
        /\ hist[i].rnd.err = nil
        /\ hist[i].out # <<>>

----------------------------------------------------------------------------
(* SpecGen: goroutines of one process running genMsgID concurrently *)

Threads == 1..NThreads

\* the zero value Mail{}
NoMail ==
    [ Sender |-> <<>>, From |-> <<>>, ReplyTo |-> <<>>, To |-> <<>>, Cc |-> <<>>,
      Bcc |-> <<>>, MessageID |-> <<>>, Subject |-> <<>>, Parts |-> <<>>,
      Attachments |-> <<>> ]

\* a goroutine's locals before genMsgID's first statement
NoLocals ==
    [ t |-> 0, pid |-> 0, rnd |-> [val |-> 0, err |-> "not called"],
      host |-> HostNotCalled, ret |-> [id |-> <<>>, err |-> "not returned"] ]

InitGen ==
    /\ m = NoMail
    /\ hist = <<>>
    /\ pid \in Pids
    /\ gpc = [i \in Threads |-> "now"]
    /\ gloc = [i \in Threads |-> NoLocals]
    /\ MainIdle

\* t := time.Now().UnixNano()
GenNow(i) ==
    /\ gpc[i] = "now"
    /\ \E t \in Times : gloc' = [gloc EXCEPT ![i].t = t]
    /\ gpc' = [gpc EXCEPT ![i] = "getpid"]
    /\ UNCHANGED <<mailVars, pid, mainVars>>

\* pid := os.Getpid()
GenGetpid(i) ==
    /\ gpc[i] = "getpid"
    /\ gloc' = [gloc EXCEPT ![i].pid = pid]
    /\ gpc' = [gpc EXCEPT ![i] = "rand"]
    /\ UNCHANGED <<mailVars, pid, mainVars>>

\* rint, err := rand.Int(rand.Reader, ...); if err != nil { return "", err }
GenRandInt(i) ==
    /\ gpc[i] = "rand"
    /\ \E r \in RandOutcomes :
         IF r.err # nil
         THEN /\ gloc' = [gloc EXCEPT ![i].rnd = r,
                               ![i].ret = genMsgID(gloc[i].t, gloc[i].pid, r, HostNotCalled)]
              /\ gpc' = [gpc EXCEPT ![i] = "done"]
         ELSE /\ gloc' = [gloc EXCEPT ![i].rnd = r]
              /\ gpc' = [gpc EXCEPT ![i] = "hostname"]
    /\ UNCHANGED <<mailVars, pid, mainVars>>

\* host, err := os.Hostname()
GenHostname(i) ==
    /\ gpc[i] = "hostname"
    /\ \E h \in HostOutcomes : gloc' = [gloc EXCEPT ![i].host = h]
    /\ gpc' = [gpc EXCEPT ![i] = "sprintf"]
    /\ UNCHANGED <<mailVars, pid, mainVars>>

\* if err != nil { host = "localhost.localdomain" }; return fmt.Sprintf(...), nil
GenReturn(i) ==
    /\ gpc[i] = "sprintf"
    /\ gloc' = [gloc EXCEPT ![i].ret =
                    genMsgID(gloc[i].t, gloc[i].pid, gloc[i].rnd, gloc[i].host)]
    /\ gpc' = [gpc EXCEPT ![i] = "done"]
    /\ UNCHANGED <<mailVars, pid, mainVars>>

NextGen ==
    \E i \in Threads :
        \/ GenNow(i)
        \/ GenGetpid(i)
        \/ GenRandInt(i)
        \/ GenHostname(i)
        \/ GenReturn(i)

SpecGen == InitGen /\ [][NextGen]_vars

\* goroutine i's genMsgID has returned an identifier and a nil error
Returned(i) == gpc[i] = "done" /\ gloc[i].ret.err = nil

C4_EqualOnlySameReads ==
    \A i, j \in Threads :
        (i # j /\ Returned(i) /\ Returned(j) /\ gloc[i].ret.id = gloc[j].ret.id) =>
            /\ gloc[i].t = gloc[j].t
            /\ gloc[i].rnd = gloc[j].rnd
            /\ gloc[i].host = gloc[j].host

\* a step changes the locals and the position of one invocation at most, and never
\* the process-wide state the invocations share
C4_WritesOwnLocals ==
    /\ pid' = pid
    /\ \A i, j \in Threads :
         (i # j /\ (gloc[i]' # gloc[i] \/ gpc[i]' # gpc[i])) =>
             (gloc[j]' = gloc[j] /\ gpc[j]' = gpc[j])

----------------------------------------------------------------------------
(* SpecMain: the program main *)

\* bytes.NewBufferString("some email body")
Body == <<"s", "o", "m", "e", " ", "e", "m", "a", "i", "l", " ", "b", "o", "d", "y">>

InitMain ==
    /\ m = NoMail
    /\ hist = <<>>
    /\ pid \in Pids
    /\ gpc = GenIdle
    /\ gloc = GenIdle
    /\ mpc = "dial"
    /\ conn = "none"
    /\ wc = "none"
    /\ defers = <<>>
    /\ buf = <<>>
    /\ events = <<>>
    /\ exitCode = -1

\* log.Fatal(err): prints and calls os.Exit(1); deferred calls do not run
LogFatal ==
    /\ mpc' = "exited"
    /\ exitCode' = 1

\* conn, err := smtp.Dial(...); if err != nil { log.Fatal(err) }; defer conn.Close()
MainDial ==
    /\ mpc = "dial"
    /\ \/ /\ events' = Append(events, [op |-> "Dial", ok |-> FALSE])
          /\ LogFatal
          /\ UNCHANGED <<conn, defers>>
       \/ /\ events' = Append(events, [op |-> "Dial", ok |-> TRUE])
          /\ conn' = "open"
          /\ defers' = <<"conn.Close">> \o defers
          /\ mpc' = "mail"
          /\ UNCHANGED exitCode
    /\ UNCHANGED <<mailVars, pid, genVars, wc, buf>>

\* conn.Mail("foo@bar.fr"): the error returned is dropped
MainMail ==
    /\ mpc = "mail"
    /\ \E ok \in BOOLEAN : events' = Append(events, [op |-> "Mail", ok |-> ok])
    /\ mpc' = "rcpt"
    /\ UNCHANGED <<mailVars, pid, genVars, conn, wc, defers, buf, exitCode>>

\* conn.Rcpt("recp@foo.fr"): the error returned is dropped
MainRcpt ==
    /\ mpc = "rcpt"
    /\ \E ok \in BOOLEAN : events' = Append(events, [op |-> "Rcpt", ok |-> ok])
    /\ mpc' = "data"
    /\ UNCHANGED <<mailVars, pid, genVars, conn, wc, defers, buf, exitCode>>

\* wc, err := conn.Data(); if err != nil { log.Fatal(err) }; defer wc.Close()
MainData ==
    /\ mpc = "data"
    /\ \/ /\ events' = Append(events, [op |-> "Data", ok |-> FALSE])
          /\ LogFatal
          /\ UNCHANGED <<wc, defers>>
       \/ /\ events' = Append(events, [op |-> "Data", ok |-> TRUE])
          /\ wc' = "open"
          /\ defers' = <<"wc.Close">> \o defers
          /\ mpc' = "newbuf"
          /\ UNCHANGED exitCode
    /\ UNCHANGED <<mailVars, pid, genVars, conn, buf>>

\* buf := bytes.NewBufferString("some email body")
MainNewBuffer ==
    /\ mpc = "newbuf"
    /\ buf' = Body
    /\ mpc' = "write"
    /\ UNCHANGED <<mailVars, pid, genVars, conn, wc, defers, events, exitCode>>

\* _, err = buf.WriteTo(wc); if err != nil { log.Fatal(err) }
\* wc.Write takes the first n bytes; WriteTo fails when Write fails or n is short
MainWriteTo ==
    /\ mpc = "write"
    /\ \E n \in 0..Len(buf), werr \in BOOLEAN :
         /\ buf' = SubSeq(buf, n + 1, Len(buf))
         /\ IF werr \/ n < Len(buf)
            THEN /\ events' = Append(events, [op |-> "WriteTo", ok |-> FALSE])
                 /\ LogFatal
            ELSE /\ events' = Append(events, [op |-> "WriteTo", ok |-> TRUE])
                 /\ mpc' = "return"
                 /\ UNCHANGED exitCode
    /\ UNCHANGED <<mailVars, pid, genVars, conn, wc, defers>>

\* main returns: the deferred calls run, last deferred first; their errors are dropped
MainRunDeferred ==
    /\ mpc = "return"
    /\ defers # <<>>
    /\ \E ok \in BOOLEAN : events' = Append(events, [op |-> Head(defers), ok |-> ok])
    /\ wc' = IF Head(defers) = "wc.Close" THEN "closed" ELSE wc
    /\ conn' = IF Head(defers) = "conn.Close" THEN "closed" ELSE conn
    /\ defers' = Tail(defers)
    /\ UNCHANGED <<mailVars, pid, genVars, mpc, buf, exitCode>>

\* the deferred calls have run: the process exits with status 0
MainExit ==
    /\ mpc = "return"
    /\ defers = <<>>
    /\ mpc' = "exited"
    /\ exitCode' = 0
    /\ UNCHANGED <<mailVars, pid, genVars, conn, wc, defers, buf, events>>

NextMain ==
    \/ MainDial
    \/ MainMail
    \/ MainRcpt
    \/ MainData
    \/ MainNewBuffer
    \/ MainWriteTo
    \/ MainRunDeferred
    \/ MainExit

SpecMain == InitMain /\ [][NextMain]_vars

\* the positions in events of the calls of op
EventsOf(op) == { k \in 1..Len(events) : events[k].op = op }

\* C10: once Dial has succeeded, every way the program ends has closed the
\* connection, and the DATA writer, when it was obtained, was closed before it.
C10_ClosedOnEveryExit ==
    (mpc = "exited" /\ conn # "none") =>
        /\ conn = "closed"
        /\ wc # "none" =>
              /\ wc = "closed"
              /\ \A a \in EventsOf("wc.Close"), b \in EventsOf("conn.Close") : a < b

====
